---------------------------- MODULE Spec2Model ----------------------------
(***************************************************************************)
(* A model of odin.backend.keras_helpers.Trainer: the in-memory weight     *)
(* store (save_weights / restore_weights), the training loop (fit), the    *)
(* gradient application (apply_gradients) and the early stopping rule      *)
(* (early_stop).                                                           *)
(***************************************************************************)
EXTENDS Integers, Sequences, FiniteSets, TLC

(***************************************************************************)
(* Bounds of the model.                                                    *)
(***************************************************************************)
\* largest number of batches of the training dataset ds
MaxBatches == 2
\* largest number of batches of the validation dataset valid_ds
MaxValidBatches == 1
\* largest valid_freq
MaxFreq == 2
\* largest max_iter
MaxIter == 2
\* number of calls of fit on one Trainer
MaxFits == 2
\* largest step counter of the optimizer in the runs of the weight store
MaxOptSteps == 2
\* longest list of losses given to early_stop
MaxLosses == 4
\* the finite losses are the integers -1 .. MaxLoss
MaxLoss == 2
\* a weight takes the values 0 .. WMod-1
WMod == 2

(***************************************************************************)
(* Signals (class attributes of Trainer) and Python's None.                *)
(***************************************************************************)
SIGNAL_TERMINATE == "__signal_terminate__"
SIGNAL_BEST == "__signal_best__"
None == "None"

(***************************************************************************)
(* The objects handed to the Trainer.  "enc" is a trainable keras Layer    *)
(* with a trainable kernel and a non-trainable moving average, "dec" is a  *)
(* keras Layer whose trainable flag is off, "bias" is a bare trainable     *)
(* tf.Variable, "opt" is the optimizer.                                    *)
(***************************************************************************)
Layers == {"enc", "dec"}
BareVariables == {"bias"}
Items == Layers \cup BareVariables
Vars == {"enc.kernel", "enc.moving", "dec.kernel", "bias"}
\* the variables an item owns (Layer.weights; a tf.Variable is itself)
Owned(i) ==
  CASE i = "enc" -> {"enc.kernel", "enc.moving"}
    [] i = "dec" -> {"dec.kernel"}
    [] i = "bias" -> {"bias"}
\* the attribute i.trainable of a Layer or of a tf.Variable
ItemTrainable(i) == i \in {"enc", "bias"}
\* the attribute trainable of each variable
VarTrainable(v) == v \in {"enc.kernel", "dec.kernel", "bias"}
\* Layer.trainable_variables
TrainableVariables(i) == {v \in Owned(i) : VarTrainable(v)}
\* isinstance(i, keras.layers.Layer)
IsLayer(i) == i \in Layers

VARIABLES
  \* ---- the models and the optimizer
  weights,          \* value of every variable
  opt_iterations,   \* the optimizer's state (its step counter)
  \* ---- module globals
  BEST_WEIGHTS,     \* _BEST_WEIGHTS: id(layer) -> saved weights
  BEST_OPTIMIZER,   \* _BEST_OPTIMIZER: id(optimizer) -> saved state
  \* ---- the Trainer object
  n_iter, train_loss, valid_loss, valid_loss_epoch,
  \* ---- the frame of the running call of fit
  pc, ds, valid_ds, valid_freq, max_iter, pos, inputs, total_iter,
  vpos, epoch_loss, signal,
  \* ---- a user of early_stop: its list of losses, the arguments it
  \*      passes and the signal it got back
  losses, es_args, es_result,
  \* ---- a StackedVAE: its construction arguments, the frame of the
  \*      running call of encode or decode and what the last calls returned
  ladder, vae_pc, vae_h, vae_i, vae_only, latents, outputs, encoded, decoded,
  \* ---- a DistributionDense layer: self._prior, self._call_mode and
  \*      self._last_distribution, the output tensor its user holds, the
  \*      distributions built so far and the outcome of the last operation
  dd_prior, call_mode, last_distribution, held, built, dd_result,
  \* ---- a call of Trainer.prepare: its arguments, its position and the
  \*      dataset it has built so far, as the list of its stages
  prep_args, prep_pc, pipeline,
  \* ---- a checkpoint directory: the CheckpointManager of its footprint,
  \*      the pickle files in it and what restore_checkpoint returned last
  manager, files, restored,
  \* ---- history variables (observers, never read by the program)
  fits, h, hw, hsaves

vars == <<weights, opt_iterations, BEST_WEIGHTS, BEST_OPTIMIZER,
          n_iter, train_loss, valid_loss, valid_loss_epoch,
          pc, ds, valid_ds, valid_freq, max_iter, pos, inputs, total_iter,
          vpos, epoch_loss, signal, losses, es_args, es_result,
          ladder, vae_pc, vae_h, vae_i, vae_only, latents, outputs,
          encoded, decoded,
          dd_prior, call_mode, last_distribution, held, built, dd_result,
          prep_args, prep_pc, pipeline, manager, files, restored,
          fits, h, hw, hsaves>>

modelVars == <<weights, opt_iterations>>
storeVars == <<BEST_WEIGHTS, BEST_OPTIMIZER, hw>>
trainerVars == <<n_iter, train_loss, valid_loss, valid_loss_epoch>>
frameVars == <<pc, ds, valid_ds, valid_freq, max_iter, pos, inputs,
               total_iter, vpos, epoch_loss, signal>>
stopVars == <<losses, es_args, es_result>>
vaeVars == <<ladder, vae_pc, vae_h, vae_i, vae_only, latents, outputs,
             encoded, decoded>>
\* the objects the trainer, the weight store and early_stop never touch
layerVars == <<dd_prior, call_mode, last_distribution, held, built, dd_result>>
prepVars == <<prep_args, prep_pc, pipeline>>
ckptVars == <<manager, files, restored, hsaves>>
extVars == <<vaeVars, layerVars, prepVars, ckptVars>>


(***************************************************************************)
(* Helpers on datasets and lists.                                          *)
(***************************************************************************)
\* a tf.data.Dataset of n batches; batch i carries the value i
Dataset(n) == [i \in 1..n |-> i]
NoDataset == [given |-> FALSE, batches |-> <<>>]
GivenDataset(n) == [given |-> TRUE, batches |-> Dataset(n)]

RECURSIVE SeqSum(_)
SeqSum(s) == IF s = <<>> THEN 0 ELSE Head(s) + SeqSum(Tail(s))

\* tf.reduce_mean(epoch_loss): kept as the exact fraction sum / count
\* (count = 0 is the NaN of an empty validation set)
ReduceMean(s) == [sum |-> SeqSum(s), count |-> Len(s)]

(***************************************************************************)
(* Trainer.apply_gradients(tape, optimizer, loss, model_or_weights).       *)
(* A gradient update is abstracted to "the value changes": w -> w+1 mod    *)
(* WMod, and the optimizer counts one more step.                           *)
(***************************************************************************)
SelectedWeights(model_or_weights) ==
  UNION { IF ~ItemTrainable(i) THEN {}
          ELSE IF ~IsLayer(i) THEN {i}
          ELSE TrainableVariables(i) : i \in model_or_weights }

\* mutant: the test "if tape is None: return" is missing
ApplyGradients_NoTapeTest(tape, w, it, model_or_weights) ==
  [weights |-> [v \in Vars |->
                  IF v \in SelectedWeights(model_or_weights)
                    THEN (w[v] + 1) % WMod ELSE w[v]],
   opt_iterations |-> it + 1]

ApplyGradients(tape, w, it, model_or_weights) ==
  IF tape = None
    THEN [weights |-> w, opt_iterations |-> it]
    ELSE [weights |-> [v \in Vars |->
                         IF v \in SelectedWeights(model_or_weights)
                           THEN (w[v] + 1) % WMod ELSE w[v]],
          opt_iterations |-> it + 1]

(***************************************************************************)
(* The optimize function given to fit: it computes a loss from the batch   *)
(* and the weights and updates the weights only through apply_gradients.   *)
(***************************************************************************)
Loss(x, w) == 1 + ((x + w["enc.kernel"]) % 2)

Optimize(x, tape, w, it) ==
  LET g == ApplyGradients(tape, w, it, Items)
  IN  [loss |-> Loss(x, w), weights |-> g.weights,
       opt_iterations |-> g.opt_iterations]

\* fit.step(n_iter, inputs, training)
Step(x, training, w, it) ==
  IF training THEN Optimize(x, "tape", w, it)
              ELSE Optimize(x, None, w, it)

(***************************************************************************)
(* Floating point values as numpy computes with them: a finite value is    *)
(* the exact fraction n / d (d > 0), and there are NaN, +Inf and -Inf.     *)
(* A division by zero gives Inf or NaN (numpy warns, it does not raise).   *)
(***************************************************************************)
Fin(n, d) == [k |-> "fin", n |-> n, d |-> d]
NaN == [k |-> "nan", n |-> 0, d |-> 1]
Inf(sign) == [k |-> "inf", n |-> sign, d |-> 1]
Num(n) == Fin(n, 1)

\* np.isnan, np.isinf
IsNan(x) == x.k = "nan"
IsInf(x) == x.k = "inf"
IsFinite(x) == x.k = "fin"
Sign(x) == IF x.n > 0 THEN 1 ELSE IF x.n < 0 THEN -1 ELSE 0

\* a / b
FDiv(a, b) ==
  IF IsNan(a) \/ IsNan(b) THEN NaN
  ELSE IF IsInf(a)
    THEN IF IsInf(b) THEN NaN
         ELSE Inf(IF b.n < 0 THEN -a.n ELSE a.n)
  ELSE IF IsInf(b) THEN Num(0)
  ELSE IF b.n = 0 THEN IF a.n = 0 THEN NaN ELSE Inf(Sign(a))
  ELSE IF b.n > 0 THEN Fin(a.n * b.d, a.d * b.n)
  ELSE Fin(-(a.n * b.d), a.d * (-b.n))

\* a + b
FAdd(a, b) ==
  IF IsNan(a) \/ IsNan(b) THEN NaN
  ELSE IF IsInf(a) THEN IF IsInf(b) /\ b.n # a.n THEN NaN ELSE a
  ELSE IF IsInf(b) THEN b
  ELSE Fin(a.n * b.d + b.n * a.d, a.d * b.d)

\* a * b
FMul(a, b) ==
  IF IsNan(a) \/ IsNan(b) THEN NaN
  ELSE IF IsInf(a) \/ IsInf(b)
    THEN IF Sign(a) * Sign(b) = 0 THEN NaN ELSE Inf(Sign(a) * Sign(b))
  ELSE Fin(a.n * b.n, a.d * b.d)

\* a - b
FSub(a, b) == FAdd(a, FMul(Num(-1), b))

\* a < b, a == b, a <= b, a >= b: every comparison with NaN is false
FLt(a, b) ==
  /\ ~IsNan(a) /\ ~IsNan(b)
  /\ \/ IsInf(a) /\ a.n < 0 /\ ~(IsInf(b) /\ b.n < 0)
     \/ IsInf(b) /\ b.n > 0 /\ ~(IsInf(a) /\ a.n > 0)
     \/ IsFinite(a) /\ IsFinite(b) /\ a.n * b.d < b.n * a.d
FEq(a, b) ==
  /\ ~IsNan(a) /\ ~IsNan(b)
  /\ \/ IsInf(a) /\ IsInf(b) /\ a.n = b.n
     \/ IsFinite(a) /\ IsFinite(b) /\ a.n * b.d = b.n * a.d
FLe(a, b) == FLt(a, b) \/ FEq(a, b)
FGe(a, b) == FLe(b, a)
FGt(a, b) == FLt(b, a)

\* np.sum of a list
RECURSIVE NpSum(_)
NpSum(s) == IF s = <<>> THEN Num(0) ELSE FAdd(Head(s), NpSum(Tail(s)))

\* np.min of a non-empty list: NaN when the list holds a NaN
NpMin(s) ==
  IF \E i \in 1..Len(s) : IsNan(s[i]) THEN NaN
  ELSE s[CHOOSE i \in 1..Len(s) : \A j \in 1..Len(s) : FLe(s[i], s[j])]

\* the slice s[-k:] for k >= 1
LastK(s, k) == SubSeq(s, IF Len(s) > k THEN Len(s) - k + 1 ELSE 1, Len(s))

(***************************************************************************)
(* Trainer.early_stop(losses, threshold, progress_length, patience,        *)
(*                    min_epoch, terminate_on_nan)                         *)
(***************************************************************************)
\* the defaults of the arguments
DefaultProgressLength == 5
DefaultPatience == 5
DefaultThreshold == Fin(1, 5)
DefaultMinEpoch == Inf(-1)

\* mutant: min_epoch is ignored, the warm-up is always two epochs
InWarmup_TwoEpochs(n, min_epoch) == n < 2

\* the test "len(losses) < max(2., min_epoch)"
InWarmup(n, min_epoch) ==
  FLt(Num(n), IF FGt(min_epoch, Num(2)) THEN min_epoch ELSE Num(2))

\* the patience rule
PatienceFires(ls, best, threshold, patience) ==
  /\ patience > 1
  /\ Len(ls) > patience
  /\ \A i \in DOMAIN LastK(ls, patience) :
       FGe(FSub(FDiv(LastK(ls, patience)[i], best), Num(1)),
           FDiv(threshold, Num(2)))

\* "generalization = current / best - 1"
Generalization(ls) ==
  FSub(FDiv(ls[Len(ls)], NpMin(SubSeq(ls, 1, Len(ls) - 1))), Num(1))

\* "progression = 10 * (np.sum(progress) / (k * np.min(progress)) - 1)"
Progression(ls, progress_length) ==
  IF progress_length > 1
    THEN LET progress == LastK(ls, progress_length)
         IN  FMul(Num(10),
                  FSub(FDiv(NpSum(progress),
                            FMul(Num(progress_length), NpMin(progress))),
                       Num(1)))
    ELSE Num(1)

EarlyStop(ls, threshold, progress_length, patience, min_epoch, terminate_on_nan) ==
  IF Len(ls) = 0 THEN None
  ELSE IF terminate_on_nan /\ (IsNan(ls[Len(ls)]) \/ IsInf(ls[Len(ls)]))
    THEN SIGNAL_TERMINATE
  ELSE IF InWarmup(Len(ls), min_epoch) THEN SIGNAL_BEST
  ELSE IF PatienceFires(ls, NpMin(SubSeq(ls, 1, Len(ls) - 1)), threshold,
                        patience)
    THEN SIGNAL_TERMINATE
  ELSE IF FLe(Generalization(ls), Num(0)) THEN SIGNAL_BEST
  ELSE IF FGe(FDiv(Generalization(ls), Progression(ls, progress_length)),
              threshold)
    THEN SIGNAL_TERMINATE
  ELSE None

\* the arguments of early_stop when none is given
DefaultArgs ==
  [threshold |-> DefaultThreshold, progress_length |-> DefaultProgressLength,
   patience |-> DefaultPatience, min_epoch |-> DefaultMinEpoch,
   terminate_on_nan |-> TRUE]

InitStop ==
  /\ losses = <<>>
  /\ es_args = DefaultArgs
  /\ es_result = "pending"

(***************************************************************************)
(* StackedVAE (hierarchical_vae.py): the layers that __init__ builds and   *)
(* the values that flow through encode and decode.  Ladder levels are      *)
(* numbered 1..L from the lowest (the source numbers them 0..L-1).         *)
(***************************************************************************)
MaxLadder == 3

\* X[::-1]
Reverse(s) == [i \in 1..Len(s) |-> s[Len(s) + 1 - i]]

\* the construction arguments of a StackedVAE with L ladder levels
LadderArgs ==
  [L : 0..MaxLadder, tie_latents : BOOLEAN, stochastic_inference : BOOLEAN,
   only_mean_up : BOOLEAN]

\* self.ladder_qz: the posterior layers "qZ%d", one per level, lowest first
ladder_qz(a) == [i \in 1..a.L |-> [layer |-> "qZ", level |-> i]]

\* self.ladder_pz: the same layers when tie_latents, else layers "pZ%d"
ladder_pz(a) ==
  IF a.tie_latents THEN ladder_qz(a)
  ELSE [i \in 1..a.L |-> [layer |-> "pZ", level |-> i]]

\* self.ladder_encoder, built from ladder_hiddens, lowest level first
ladder_encoder(a) == [i \in 1..a.L |-> [net |-> "ladder_encoder", level |-> i]]

\* self.ladder_decoder, built from ladder_hiddens[::-1], highest level first
ladder_decoder(a) ==
  Reverse([i \in 1..a.L |-> [net |-> "ladder_decoder", level |-> i]])

\* the other order of iteration over the prior layers: lowest level first
DecodePriors_Forward(a) == ladder_pz(a)

\* decode iterates over zip(self.ladder_decoder, self.ladder_pz[::-1])
DecodePriors(a) == Reverse(ladder_pz(a))

\* a distribution: the layer that parametrized it
TopLatent == [layer |-> "latents", level |-> 0]
Observation == [layer |-> "observation", level |-> 0]

\* a hidden tensor: the network that produced it and what it was fed with
Tensor(net, level, via) == [net |-> net, level |-> level, via |-> via]
NoTensor == Tensor("none", 0, "none")

\* what encode or decode returned: nothing yet, one hidden tensor, or a
\* tuple of distributions
NoReturn == [kind |-> "None", items |-> <<>>, hidden |-> NoTensor]
ReturnTensor(t) == [kind |-> "tensor", items |-> <<>>, hidden |-> t]
ReturnTuple(s) == [kind |-> "tuple", items |-> s, hidden |-> NoTensor]

\* no call of encode or decode is running
IdleVAE ==
  /\ vae_pc = "idle"
  /\ vae_h = NoTensor
  /\ vae_i = 0
  /\ vae_only = FALSE
  /\ latents = <<>>
  /\ outputs = <<>>

\* the StackedVAE that the trainer's programs do not use
InitNoVAE ==
  /\ ladder = [L |-> 0, tie_latents |-> FALSE, stochastic_inference |-> TRUE,
               only_mean_up |-> FALSE]
  /\ IdleVAE
  /\ encoded = NoReturn
  /\ decoded = NoReturn

(***************************************************************************)
(* DistributionDense (stat_layers.py).  A distribution is an object: its   *)
(* identity is the order in which it was built, and it remembers the       *)
(* input that parametrized it.                                             *)
(***************************************************************************)
MaxDists == 3

Dist(id, x) == [id |-> id, x |-> x]
\* self._last_distribution = None
NoDist == Dist(0, "None")

\* the members of odin.bay.helpers.Statistic; a mode is a set of members
Statistic == {"SAMPLE", "MEAN", "VAR", "STDDEV", "DIST"}
\* the modes that a layer is built or called with
CallModes ==
  {{"SAMPLE"}, {"MEAN"}, {"DIST"}, {"VAR", "STDDEV"}, {"SAMPLE", "MEAN", "DIST"}}

\* the input tensors of the layer: they carry no _distribution attribute
Inputs == {"x1", "x2"}
InputTensor(v) == [val |-> v, has |-> FALSE, distribution |-> NoDist]
\* an output y of the layer after setattr(y, '_distribution', dist)
OutputTensor(d) == [val |-> "y", has |-> TRUE, distribution |-> d]
\* x=None
NoX == [val |-> "None", has |-> FALSE, distribution |-> NoDist]

\* a test of reuse that does not compare with the last distribution
Reuses_AnyAttribute(x, last) == x.has

\* hasattr(x, '_distribution') and x._distribution == self._last_distribution
Reuses(x, last) == x.has /\ x.distribution = last

\* _apply_distribution(x): the distribution, and the distributions built
ApplyDistribution(x, last, heap) ==
  IF Reuses(x, last) THEN [dist |-> x.distribution, built |-> heap]
  ELSE LET d == Dist(Len(heap) + 1, x.val)
       IN [dist |-> d, built |-> Append(heap, d)]

\* self._distribution(x): always a new distribution
NewDistribution(x, heap) ==
  LET d == Dist(Len(heap) + 1, x.val) IN [dist |-> d, built |-> Append(heap, d)]

\* the state of the layer that mean, variance and sample read and write
LayerState(last, heap) == [last |-> last, built |-> heap, ys |-> <<>>]

\* mean(x), variance(x), sample(x) and, through variance, stddev(x):
\* the output y carries dist, which becomes the last distribution
Moment(x, st) ==
  LET r == ApplyDistribution(x, st.last, st.built)
  IN [last |-> r.dist, built |-> r.built,
      ys |-> Append(st.ys, OutputTensor(r.dist))]

\* the body of call(x, mode) after the test of the dtype
CallBody(x, mode, st) ==
  IF mode = {"DIST"}
    THEN LET r == NewDistribution(x, st.built)
         IN [last |-> r.dist, built |-> r.built, ys |-> <<>>, dist |-> r.dist]
    ELSE LET s1 == IF "SAMPLE" \in mode THEN Moment(x, st) ELSE st
             s2 == IF "MEAN" \in mode THEN Moment(x, s1) ELSE s1
             s3 == IF "VAR" \in mode \/ "STDDEV" \in mode
                     THEN Moment(x, s2) ELSE s2
         IN [last |-> s3.last, built |-> s3.built, ys |-> s3.ys,
             dist |-> s3.ys[1].distribution]

\* the outcome of an operation: its name, the input that parametrizes
\* ("None" when there is none), the posterior before it, whether its
\* assertion held, what it raised and the distribution of its result
Outcome(op, x, before, asserted, raised, dist) ==
  [op |-> op, x |-> x, before |-> before, asserted |-> asserted,
   raised |-> raised, dist |-> dist]

NoOutcome == Outcome("none", "None", NoDist, TRUE, "none", NoDist)

\* the layer after __init__, before any operation
NewLayer ==
  /\ last_distribution = NoDist
  /\ held = NoX
  /\ built = <<>>
  /\ dd_result = NoOutcome

InitNoLayer ==
  /\ dd_prior = FALSE
  /\ call_mode = {"SAMPLE"}
  /\ NewLayer

(***************************************************************************)
(* Trainer.prepare: a tf.data.Dataset is the list of the transformations   *)
(* applied to its source, the first applied first.                         *)
(***************************************************************************)
MaxParallel == 2
MaxEpochs == 2
DefaultBatchSize == 128
DefaultShuffleBuffer == 10000

\* the value of num_parallel_calls
Sequential == [kind |-> "None", n |-> 0]
AUTOTUNE == [kind |-> "AUTOTUNE", n |-> 0]
Calls(n) == [kind |-> "int", n |-> n]

\* a conversion that lets 0 through as a number of calls
ParallelCalls_ZeroExplicit(x) == IF x = -1 THEN AUTOTUNE ELSE Calls(x)

\* None if x == 0 else (AUTOTUNE if x == -1 else int(x))
ParallelCalls(x) ==
  IF x = 0 THEN Sequential ELSE IF x = -1 THEN AUTOTUNE ELSE Calls(x)

\* one transformation of a dataset
Stage(op, fn, parallel, n) == [op |-> op, fn |-> fn, parallel |-> parallel, n |-> n]

\* the arguments of prepare; shuffle is None, a number or another true value
PrepareArgs ==
  [is_dataset : BOOLEAN, preprocess : BOOLEAN, postprocess : BOOLEAN,
   batch_size : {1, DefaultBatchSize}, epochs : 1..MaxEpochs,
   cache : BOOLEAN, shuffle : {"None", "Number", "True"},
   parallel_preprocess : -1..MaxParallel,
   parallel_postprocess : -1..MaxParallel]

DefaultPrepareArgs ==
  [is_dataset |-> TRUE, preprocess |-> FALSE, postprocess |-> FALSE,
   batch_size |-> DefaultBatchSize, epochs |-> 1, cache |-> TRUE,
   shuffle |-> "None", parallel_preprocess |-> 0, parallel_postprocess |-> 0]

InitPrepare ==
  /\ prep_args = DefaultPrepareArgs
  /\ prep_pc = "idle"
  /\ pipeline = <<>>

(***************************************************************************)
(* Trainer.save_checkpoint and restore_checkpoint: the directory holds the *)
(* checkpoints that the manager keeps, each with its number (ckpt-N), and  *)
(* the files optimizers.pkl, max_to_keep and trainer.pkl.                  *)
(***************************************************************************)
MaxSaves == 3
DefaultMaxToKeep == 5
\* the values of max_to_keep that the calls pass
KeepValues == {2, DefaultMaxToKeep}

\* no file trainer.pkl
NoTrainerPkl == [exists |-> FALSE, n_iter |-> 0, train_loss |-> <<>>,
                 valid_loss |-> <<>>, call |-> 0]

\* pickle.dump(trainer, f): Trainer.__getstate__, written by call number k
TrainerPkl(k) == [exists |-> TRUE, n_iter |-> n_iter, train_loss |-> train_loss,
                  valid_loss |-> valid_loss, call |-> k]

\* manager.save(): checkpoint number k of the values of the models and
\* the optimizer
Checkpoint(k) == [number |-> k, weights |-> weights, optimizer |-> opt_iterations]

\* the manager keeps the max_to_keep latest checkpoints
Kept(cps, max_to_keep) ==
  IF Len(cps) <= max_to_keep THEN cps
  ELSE SubSeq(cps, Len(cps) - max_to_keep + 1, Len(cps))

\* manager.checkpoints[int(index)]
PyIndex(cps, index) == IF index < 0 THEN cps[Len(cps) + index + 1] ELSE cps[index + 1]

NoRestore ==
  [done |-> FALSE, index |-> 0, number |-> 0, models |-> [v \in Vars |-> 0],
   optimizer |-> 0, trainer |-> NoTrainerPkl]

InitCheckpoint ==
  /\ manager = [made |-> FALSE, max_to_keep |-> 0, checkpoints |-> <<>>]
  /\ files = [optimizers_pkl |-> FALSE, max_to_keep |-> 0,
              trainer_pkl |-> NoTrainerPkl]
  /\ restored = NoRestore
  /\ hsaves = <<>>

InitExt == InitNoVAE /\ InitNoLayer /\ InitPrepare /\ InitCheckpoint

(***************************************************************************)
(* Trainer.__init__ and the state before any call.                         *)
(***************************************************************************)
NoHistory ==
  [steps |-> 0, terminated |-> FALSE, callbacks |-> 0, iterated |-> FALSE,
   passes |-> 0, due |-> 0, valid_steps |-> 0,
   valid_loss_at_call |-> <<>>, last |-> "init"]

InitModels ==
  /\ weights = [v \in Vars |-> 0]
  /\ opt_iterations = 0

NoSave(m) == [present |-> FALSE, value |-> [v \in Owned(m) |-> 0]]
NoWeightHistory ==
  [saved |-> [m \in Layers |-> NoSave(m)],
   last |-> [op |-> "init", models |-> {}, changed |-> FALSE]]

InitStore ==
  /\ BEST_WEIGHTS = [i \in {} |-> 0]
  /\ BEST_OPTIMIZER = [i \in {} |-> 0]
  /\ hw = NoWeightHistory

InitTrainer ==
  /\ n_iter = 0
  /\ train_loss = <<>>
  /\ valid_loss = <<>>
  /\ valid_loss_epoch = <<>>

InitFrame ==
  /\ pc = "idle"
  /\ ds = <<>>
  /\ valid_ds = NoDataset
  /\ valid_freq = 1
  /\ max_iter = -1
  /\ pos = 0
  /\ inputs = 0
  /\ total_iter = 0
  /\ vpos = 0
  /\ epoch_loss = <<>>
  /\ signal = None
  /\ fits = 0
  /\ h = NoHistory

Init ==
  InitModels /\ InitStore /\ InitTrainer /\ InitFrame /\ InitStop /\ InitExt

(***************************************************************************)
(* Trainer.fit, one action per position of the loop of train().            *)
(***************************************************************************)
\* mutant: the counter is tested before it is increased
ValidationDue_BeforeIncrement(n, freq) == (n - 1) % freq = 0

\* the test "self.n_iter % valid_freq == 0"
ValidationDue(n, freq) == n % freq = 0

\* mutant: one iteration too many
MaxIterReached_Late(mi, ti) == mi > 0 /\ ti > mi

\* the test "max_iter > 0 and total_iter >= max_iter"
MaxIterReached(mi, ti) == mi > 0 /\ ti >= mi

\* mutant: the wrong signal stops the loop
IsTerminate_Best(sig) == sig = SIGNAL_BEST

\* the test "signal == Trainer.SIGNAL_TERMINATE"
IsTerminate(sig) == sig = SIGNAL_TERMINATE

\* mutant: the callback is called only under "if valid_ds is not None"
AfterIncrement_CallbackInValid(n, freq, vds) ==
  IF ValidationDue(n, freq) /\ vds.given THEN "valid" ELSE "train"

\* where train() goes after the counter was increased
AfterIncrement(n, freq, vds) ==
  IF ValidationDue(n, freq)
    THEN IF vds.given THEN "valid" ELSE "callback"
    ELSE "train"

\* fit(ds, optimize, valid_ds, valid_freq, max_iter, callback) is called
FitCall ==
  /\ pc = "idle"
  /\ fits < MaxFits
  /\ \E n \in 0..MaxBatches : ds' = Dataset(n)
  /\ \E v \in {NoDataset} \cup {GivenDataset(n) : n \in 0..MaxValidBatches} :
       valid_ds' = v
  /\ valid_freq' \in 1..MaxFreq
  /\ max_iter' \in -1..MaxIter
  /\ pc' = "loop"
  /\ pos' = 0
  /\ total_iter' = 0
  /\ inputs' = 0
  /\ vpos' = 0
  /\ epoch_loss' = <<>>
  /\ signal' = None
  /\ fits' = fits + 1
  /\ h' = [h EXCEPT !.steps = 0, !.terminated = FALSE, !.callbacks = 0,
                    !.iterated = FALSE, !.valid_steps = 0,
                    !.valid_loss_at_call = valid_loss, !.last = "call"]
  /\ UNCHANGED <<extVars, modelVars, storeVars, trainerVars, stopVars>>

\* "for inputs in ds": the next batch is fetched, n_iter.assign_add(1.)
NextBatch ==
  /\ pc = "loop"
  /\ pos < Len(ds)
  /\ pos' = pos + 1
  /\ inputs' = ds[pos + 1]
  /\ n_iter' = n_iter + 1
  /\ pc' = AfterIncrement(n_iter', valid_freq, valid_ds)
  /\ vpos' = 0
  /\ epoch_loss' = <<>>
  /\ h' = [h EXCEPT !.callbacks = 0, !.iterated = TRUE, !.valid_steps = 0,
                    !.due = IF /\ \E k \in 1..n_iter' : k * valid_freq = n_iter'
                               /\ valid_ds.given
                              THEN @ + 1 ELSE @,
                    !.passes = IF pc' = "valid" THEN @ + 1 ELSE @,
                    !.last = "fetch"]
  /\ UNCHANGED <<extVars, modelVars, storeVars, stopVars, train_loss, valid_loss,
                 valid_loss_epoch, ds, valid_ds, valid_freq, max_iter,
                 total_iter, signal, fits>>

\* "for inputs in ds": the dataset is exhausted, train() and fit return
Exhausted ==
  /\ pc = "loop"
  /\ pos = Len(ds)
  /\ pc' = "return"
  /\ h' = [h EXCEPT !.last = "exhausted"]
  /\ UNCHANGED <<extVars, modelVars, storeVars, stopVars, trainerVars, ds, valid_ds, valid_freq,
                 max_iter, pos, inputs, total_iter, vpos, epoch_loss, signal,
                 fits>>

\* valid(): one batch of valid_ds through step(it, inputs, training=False)
ValidStep ==
  /\ pc = "valid"
  /\ vpos < Len(valid_ds.batches)
  /\ LET r == Step(valid_ds.batches[vpos + 1], FALSE, weights, opt_iterations)
     IN  /\ epoch_loss' = Append(epoch_loss, r.loss)
         /\ weights' = r.weights
         /\ opt_iterations' = r.opt_iterations
  /\ vpos' = vpos + 1
  /\ h' = [h EXCEPT !.valid_steps = @ + 1, !.last = "valid_step"]
  /\ UNCHANGED <<extVars, storeVars, stopVars, trainerVars, pc, ds, valid_ds, valid_freq,
                 max_iter, pos, inputs, total_iter, signal, fits>>

\* valid() returns: valid_loss_epoch and valid_loss get their entries
ValidEnd ==
  /\ pc = "valid"
  /\ vpos = Len(valid_ds.batches)
  /\ valid_loss_epoch' = Append(valid_loss_epoch, epoch_loss)
  /\ valid_loss' = Append(valid_loss, ReduceMean(epoch_loss))
  /\ pc' = "callback"
  /\ h' = [h EXCEPT !.last = "valid_end"]
  /\ UNCHANGED <<extVars, modelVars, storeVars, stopVars, n_iter, train_loss, ds, valid_ds,
                 valid_freq, max_iter, pos, inputs, total_iter, vpos,
                 epoch_loss, signal, fits>>

\* "signal = callback()" and the test of the signal
Callback ==
  /\ pc = "callback"
  /\ signal' \in {None, SIGNAL_BEST, SIGNAL_TERMINATE}
  /\ pc' = IF IsTerminate(signal') THEN "return" ELSE "train"
  /\ h' = [h EXCEPT !.callbacks = @ + 1,
                    !.terminated = (signal' = SIGNAL_TERMINATE),
                    !.last = "callback"]
  /\ UNCHANGED <<extVars, modelVars, storeVars, stopVars, trainerVars, ds, valid_ds, valid_freq,
                 max_iter, pos, inputs, total_iter, vpos, epoch_loss, fits>>

\* the training step, the append to train_loss and the check of max_iter
TrainStep ==
  /\ pc = "train"
  /\ LET r == Step(inputs, TRUE, weights, opt_iterations)
     IN  /\ train_loss' = Append(train_loss, r.loss)
         /\ weights' = r.weights
         /\ opt_iterations' = r.opt_iterations
  /\ total_iter' = total_iter + 1
  /\ pc' = IF MaxIterReached(max_iter, total_iter') THEN "return" ELSE "loop"
  /\ h' = [h EXCEPT !.steps = @ + 1, !.last = "train"]
  /\ UNCHANGED <<extVars, storeVars, stopVars, n_iter, valid_loss, valid_loss_epoch, ds,
                 valid_ds, valid_freq, max_iter, pos, inputs, vpos,
                 epoch_loss, signal, fits>>

\* train() and fit return: the frame of the call is gone
FitReturn ==
  /\ pc = "return"
  /\ pc' = "idle"
  /\ ds' = <<>>
  /\ valid_ds' = NoDataset
  /\ valid_freq' = 1
  /\ max_iter' = -1
  /\ pos' = 0
  /\ inputs' = 0
  /\ total_iter' = 0
  /\ vpos' = 0
  /\ epoch_loss' = <<>>
  /\ signal' = None
  /\ h' = [NoHistory EXCEPT !.passes = h.passes, !.due = h.due,
                            !.last = "return"]
  /\ UNCHANGED <<extVars, modelVars, storeVars, stopVars, trainerVars, fits>>

Next ==
  \/ FitCall
  \/ NextBatch
  \/ Exhausted
  \/ ValidStep
  \/ ValidEnd
  \/ Callback
  \/ TrainStep
  \/ FitReturn

Spec == Init /\ [][Next]_vars


(***************************************************************************)
(* Properties of Trainer.fit.                                              *)
(***************************************************************************)
Min(a, b) == IF a <= b THEN a ELSE b

\* the running call of fit is at its return
Returned == pc = "return"

\* n is a multiple of freq
IsMultiple(n, freq) == \E k \in 0..n : k * freq = n

\* the number of training steps the claim gives to the running call
ExpectedSteps ==
  IF max_iter <= 0 THEN Len(ds) ELSE Min(max_iter, Len(ds))

\* C2: a call of fit whose callback never returns SIGNAL_TERMINATE executes
\* Len(ds) training steps when max_iter <= 0 and min(max_iter, Len(ds))
\* training steps when max_iter > 0, and every call of fit returns.
C2_FitSteps ==
  /\ [](Returned /\ ~h.terminated => h.steps = ExpectedSteps)
  /\ (pc # "idle") ~> (pc = "idle")

C2_Witness ==
  /\ Returned /\ ~h.terminated
  /\ max_iter > 0 /\ max_iter < Len(ds)
  /\ h.steps = max_iter

\* C3: in every iteration of fit the callback is called exactly once when
\* n_iter is a multiple of valid_freq and not at all otherwise, with and
\* without valid_ds.
C3_CallbackFreq ==
  /\ h.callbacks <= 1
  /\ h.callbacks = 1 => IsMultiple(n_iter, valid_freq)
  /\ pc \in {"valid", "callback"} =>
       h.callbacks = 0 /\ IsMultiple(n_iter, valid_freq)
  /\ h.iterated /\ pc \in {"train", "loop", "return"} =>
       h.callbacks = IF IsMultiple(n_iter, valid_freq) THEN 1 ELSE 0

C3_Witness ==
  /\ pc = "train" /\ h.callbacks = 1 /\ ~valid_ds.given
  /\ valid_freq = 2 /\ n_iter = 2

\* C4: with valid_ds given a validation pass runs exactly when n_iter is a
\* multiple of valid_freq, it iterates the whole valid_ds once, and it
\* appends one value to valid_loss and one list to valid_loss_epoch, so
\* between calls of fit both have one entry per validation pass; with
\* valid_ds = None valid_loss is not modified.
C4_ValidationPasses ==
  /\ h.passes = h.due
  /\ pc \in {"callback", "train", "loop", "return", "idle"} =>
       /\ Len(valid_loss) = h.passes
       /\ Len(valid_loss_epoch) = h.passes
  /\ h.last = "valid_end" =>
       /\ h.valid_steps = Len(valid_ds.batches)
       /\ Len(valid_loss_epoch[Len(valid_loss_epoch)]) = Len(valid_ds.batches)
  /\ pc # "idle" /\ ~valid_ds.given => valid_loss = h.valid_loss_at_call

C4_Witness ==
  /\ Returned /\ fits = 2
  /\ Len(valid_loss) = 2 /\ Len(valid_loss_epoch) = 2
  /\ valid_ds.given /\ Len(valid_ds.batches) = 1

\* C5: when the callback returns SIGNAL_TERMINATE the call of fit returns
\* at once, without a training step, an append to train_loss or another
\* batch of ds; with any other return value the training step follows.
C5_TerminateSignal ==
  [][/\ pc = "callback" =>
          IF signal' = SIGNAL_TERMINATE
            THEN /\ pc' = "return"
                 /\ train_loss' = train_loss
                 /\ pos' = pos
                 /\ modelVars' = modelVars
            ELSE pc' = "train"
     /\ h'.terminated => pc' = "return"]_vars

C5_Witness ==
  /\ Returned /\ h.terminated
  /\ pos < Len(ds) /\ h.steps < pos

\* the variables a training step may update
EffectiveTrainable == {"enc.kernel", "bias"}

\* C10: apply_gradients with tape = None changes no weight and no optimizer
\* state, a validation step changes neither, and a weight that changes
\* does so in a training step and is a trainable variable.
C10_NoTapeNoUpdate ==
  [][/\ ApplyGradients(None, weights, opt_iterations, Items) =
          [weights |-> weights, opt_iterations |-> opt_iterations]
     /\ pc = "valid" => modelVars' = modelVars
     /\ \A v \in Vars : weights'[v] # weights[v] =>
          pc = "train" /\ v \in EffectiveTrainable
     /\ opt_iterations' # opt_iterations => pc = "train"]_vars

C10_Witness ==
  /\ h.last = "valid_end" /\ h.valid_steps = 1
  /\ h.steps > 0 /\ weights["enc.kernel"] = 1 /\ weights["dec.kernel"] = 0

\* One call of fit on a new Trainer.  The loop of fit is never starved: a
\* statement that can run does run.
FirstFitCall == fits = 0 /\ FitCall

NextOneCall ==
  \/ FirstFitCall
  \/ NextBatch
  \/ Exhausted
  \/ ValidStep
  \/ ValidEnd
  \/ Callback
  \/ TrainStep
  \/ FitReturn

FairSpec ==
  /\ Init
  /\ [][NextOneCall]_vars
  /\ WF_vars(NextBatch \/ Exhausted \/ ValidStep \/ ValidEnd
               \/ Callback \/ TrainStep \/ FitReturn)


(***************************************************************************)
(* Trainer.save_weights and Trainer.restore_weights: the module globals    *)
(* _BEST_WEIGHTS and _BEST_OPTIMIZER, keyed by id(object).                 *)
(***************************************************************************)
\* id(i): distinct for the objects that are alive together
Id(i) ==
  CASE i = "enc" -> 1
    [] i = "dec" -> 2
    [] i = "bias" -> 3
    [] i = "opt" -> 4

\* Layer.get_weights(): a copy of the values of all the layer's variables
GetWeights(i, w) == [v \in Owned(i) |-> w[v]]

\* the layer among models whose id is k
LayerOfId(k, models) == CHOOSE i \in models \cap Layers : Id(i) = k

\* mutant: an entry that exists is kept (setdefault instead of assignment)
SaveWeightsStore_KeepFirst(store, models, w) ==
  LET keys == {Id(i) : i \in models \cap Layers}
  IN  [k \in DOMAIN store \cup keys |->
         IF k \in DOMAIN store THEN store[k]
                               ELSE GetWeights(LayerOfId(k, models), w)]

\* the loop "_BEST_WEIGHTS[id(i)] = i.get_weights()" of save_weights
SaveWeightsStore(store, models, w) ==
  LET keys == {Id(i) : i \in models \cap Layers}
  IN  [k \in DOMAIN store \cup keys |->
         IF k \in keys THEN GetWeights(LayerOfId(k, models), w)
                       ELSE store[k]]

\* the optimizer part of save_weights; optimizers = None is the empty set
SaveOptimizerStore(store, optimizers, it) ==
  LET keys == {Id(o) : o \in optimizers}
  IN  [k \in DOMAIN store \cup keys |->
         IF k \in keys THEN it ELSE store[k]]

\* the loop "i.set_weights(_BEST_WEIGHTS[id(i)])" of restore_weights
RestoredWeights(store, models, w) ==
  [v \in Vars |->
     IF \E i \in models \cap Layers : v \in Owned(i) /\ Id(i) \in DOMAIN store
       THEN LET i == CHOOSE j \in models \cap Layers : v \in Owned(j)
            IN  store[Id(i)][v]
       ELSE w[v]]

\* the optimizer part of restore_weights
RestoredOptimizer(store, optimizers, it) ==
  IF \E o \in optimizers : Id(o) \in DOMAIN store
    THEN store[Id(CHOOSE o \in optimizers : Id(o) \in DOMAIN store)]
    ELSE it

Optimizers == {"opt"}
OptimizerArgs == SUBSET Optimizers

\* save_weights(models, optimizers)
SaveWeightsCall ==
  \E models \in SUBSET Items, optimizers \in OptimizerArgs :
    /\ BEST_WEIGHTS' = SaveWeightsStore(BEST_WEIGHTS, models, weights)
    /\ BEST_OPTIMIZER' =
         SaveOptimizerStore(BEST_OPTIMIZER, optimizers, opt_iterations)
    /\ hw' = [saved |-> [m \in Layers |->
                           IF m \in models
                             THEN [present |-> TRUE,
                                   value |-> [v \in Owned(m) |-> weights[v]]]
                             ELSE hw.saved[m]],
              last |-> [op |-> "save", models |-> {}, changed |-> FALSE]]
    /\ UNCHANGED <<extVars, modelVars, trainerVars, frameVars, stopVars, fits, h>>

\* restore_weights(models, optimizers)
RestoreWeightsCall ==
  \E models \in SUBSET Items, optimizers \in OptimizerArgs :
    /\ weights' = RestoredWeights(BEST_WEIGHTS, models, weights)
    /\ opt_iterations' =
         RestoredOptimizer(BEST_OPTIMIZER, optimizers, opt_iterations)
    /\ hw' = [hw EXCEPT !.last = [op |-> "restore",
                                  models |-> models \cap Layers,
                                  changed |-> weights' # weights]]
    /\ UNCHANGED <<extVars, BEST_WEIGHTS, BEST_OPTIMIZER, trainerVars, frameVars,
                   stopVars, fits, h>>

\* a weight change between the calls: a training step on some of the items
TrainingChange ==
  \E model_or_weights \in SUBSET Items :
    /\ opt_iterations < MaxOptSteps
    /\ LET g == ApplyGradients("tape", weights, opt_iterations,
                               model_or_weights)
       IN  /\ weights' = g.weights
           /\ opt_iterations' = g.opt_iterations
    /\ hw' = [hw EXCEPT !.last = [op |-> "change", models |-> {},
                                  changed |-> FALSE]]
    /\ UNCHANGED <<extVars, BEST_WEIGHTS, BEST_OPTIMIZER, trainerVars, frameVars,
                   stopVars, fits, h>>

\* a weight change between the calls: the user assigns one variable
AssignWeight ==
  \E v \in Vars, x \in 0..(WMod - 1) :
    /\ weights' = [weights EXCEPT ![v] = x]
    /\ hw' = [hw EXCEPT !.last = [op |-> "change", models |-> {},
                                  changed |-> FALSE]]
    /\ UNCHANGED <<extVars, opt_iterations, BEST_WEIGHTS, BEST_OPTIMIZER, trainerVars,
                   frameVars, stopVars, fits, h>>

NextWeights ==
  \/ SaveWeightsCall
  \/ RestoreWeightsCall
  \/ TrainingChange
  \/ AssignWeight

SpecWeights == Init /\ [][NextWeights]_vars

\* C1: restore_weights(m) gives m the weights it had at the latest
\* save_weights(m), whatever was saved earlier and whatever changed since,
\* and changes nothing when save_weights(m) was never called.
C1_RestoreLatest ==
  [][hw'.last.op = "restore" =>
       \A m \in hw'.last.models :
         GetWeights(m, weights') =
           IF hw.saved[m].present THEN hw.saved[m].value
                                  ELSE GetWeights(m, weights)]_vars

C1_Witness ==
  /\ hw.last.op = "restore" /\ hw.last.changed
  /\ "enc" \in hw.last.models /\ hw.saved["enc"].present
  /\ ~hw.saved["dec"].present /\ "dec" \in hw.last.models
  /\ weights["dec.kernel"] = 1


(***************************************************************************)
(* A user of Trainer.early_stop: after every epoch one more loss is in     *)
(* the list, and early_stop is called on the list.                         *)
(***************************************************************************)
LossValues == {NaN, Inf(1)} \cup {Num(n) : n \in -1..MaxLoss}

ArgValues ==
  [threshold : {DefaultThreshold},
   progress_length : {DefaultProgressLength, 2, 1},
   patience : {DefaultPatience, 2},
   min_epoch : {DefaultMinEpoch, Num(MaxLosses)},
   terminate_on_nan : BOOLEAN]

InitEarlyStop ==
  /\ InitModels /\ InitStore /\ InitTrainer /\ InitFrame /\ InitExt
  /\ losses = <<>>
  /\ es_args \in ArgValues
  /\ es_result = "pending"

\* one more loss
AppendLoss ==
  /\ Len(losses) < MaxLosses
  /\ \E x \in LossValues : losses' = Append(losses, x)
  /\ es_result' = "pending"
  /\ UNCHANGED <<extVars, modelVars, storeVars, trainerVars, frameVars, es_args,
                 fits, h>>

\* early_stop(losses, ...)
EarlyStopCall ==
  /\ es_result' = EarlyStop(losses, es_args.threshold,
                            es_args.progress_length, es_args.patience,
                            es_args.min_epoch, es_args.terminate_on_nan)
  /\ UNCHANGED <<extVars, modelVars, storeVars, trainerVars, frameVars, losses,
                 es_args, fits, h>>

NextEarlyStop ==
  \/ AppendLoss
  \/ EarlyStopCall

SpecEarlyStop == InitEarlyStop /\ [][NextEarlyStop]_vars


(***************************************************************************)
(* Properties of Trainer.early_stop.                                       *)
(***************************************************************************)
\* early_stop has returned for the list as it is
Called == es_result # "pending"

LastLoss == losses[Len(losses)]
EarlierLosses == SubSeq(losses, 1, Len(losses) - 1)
AllFinite == \A i \in DOMAIN losses : IsFinite(losses[i])
AllPositive == \A i \in DOMAIN losses : FGt(losses[i], Num(0))

\* the smallest of the earlier losses, for lists of finite losses
BestEarlier ==
  EarlierLosses[CHOOSE i \in DOMAIN EarlierLosses :
                  \A j \in DOMAIN EarlierLosses :
                    FLe(EarlierLosses[i], EarlierLosses[j])]

\* len(losses) >= max(2, min_epoch)
PastWarmup == Len(losses) >= 2 /\ FGe(Num(Len(losses)), es_args.min_epoch)

\* threshold, progress_length, patience and terminate_on_nan are the defaults
DefaultsButMinEpoch ==
  /\ es_args.threshold = DefaultThreshold
  /\ es_args.progress_length = DefaultProgressLength
  /\ es_args.patience = DefaultPatience
  /\ es_args.terminate_on_nan

\* C6: with terminate_on_nan = True, a non-empty list of losses that holds
\* a NaN or an Inf at any position gives SIGNAL_TERMINATE.
C6_NanAnywhereTerminates ==
  /\ Called /\ es_args.terminate_on_nan
  /\ \E i \in DOMAIN losses : IsNan(losses[i]) \/ IsInf(losses[i])
  => es_result = SIGNAL_TERMINATE

\* C7 as claimed: with 0 < len(losses) < min_epoch (the other arguments at
\* their defaults) the result is never SIGNAL_TERMINATE, and with
\* 0 < len(losses) < 2 it is SIGNAL_BEST.
C7_MinEpochNeverTerminates ==
  Called /\ DefaultsButMinEpoch /\ Len(losses) > 0 =>
    /\ FLt(Num(Len(losses)), es_args.min_epoch) =>
         es_result # SIGNAL_TERMINATE
    /\ Len(losses) < 2 => es_result = SIGNAL_BEST

\* C7 as amended: with 0 < len(losses) < min_epoch and a latest loss that
\* is neither NaN nor Inf (the other arguments at their defaults) the
\* result is never SIGNAL_TERMINATE, and with 0 < len(losses) < 2 and such
\* a latest loss it is SIGNAL_BEST.
C7_MinEpochFiniteLatest ==
  Called /\ DefaultsButMinEpoch /\ Len(losses) > 0 /\ IsFinite(LastLoss) =>
    /\ FLt(Num(Len(losses)), es_args.min_epoch) =>
         es_result # SIGNAL_TERMINATE
    /\ Len(losses) < 2 => es_result = SIGNAL_BEST

C7_Witness ==
  /\ Called /\ DefaultsButMinEpoch
  /\ es_args.min_epoch = Num(MaxLosses)
  /\ losses = <<Num(1), Num(2), Num(2)>>
  /\ es_result = SIGNAL_BEST

\* C8: for finite losses of any sign and len(losses) >= max(2, min_epoch),
\* early_stop returns SIGNAL_BEST when the latest loss is not larger than
\* the smallest earlier loss, and does not return it when it is larger.
C8_BestIsSmallest ==
  Called /\ AllFinite /\ PastWarmup =>
    /\ FLe(LastLoss, BestEarlier) => es_result = SIGNAL_BEST
    /\ FGt(LastLoss, BestEarlier) => es_result # SIGNAL_BEST

\* GL(t) = losses[-1] / min(losses[:-1]) - 1
DocGL == FSub(FDiv(LastLoss, BestEarlier), Num(1))

\* PG(t) = 10 * sum(L) / (k * min(L)), L = losses[-k:], as documented
DocPG ==
  LET L == LastK(losses, es_args.progress_length)
  IN  FDiv(FMul(Num(10), NpSum(L)),
           FMul(Num(es_args.progress_length), NpMin(L)))

\* C9: past the warm-up, for finite positive losses whose latest one is
\* worse than the best earlier one, when the patience rule does not fire
\* and progress_length >= 2, early_stop returns SIGNAL_TERMINATE exactly
\* when GL(t) / PG(t) >= threshold and no signal otherwise, and it divides
\* by no zero.
C9_ThresholdRule ==
  /\ Called /\ AllFinite /\ AllPositive /\ PastWarmup
  /\ FGt(LastLoss, BestEarlier)
  /\ es_args.progress_length >= 2
  /\ ~PatienceFires(losses, BestEarlier, es_args.threshold, es_args.patience)
  => /\ es_result = IF FGe(FDiv(DocGL, DocPG), es_args.threshold)
                      THEN SIGNAL_TERMINATE ELSE None
     /\ ~FEq(Progression(losses, es_args.progress_length), Num(0))

(***************************************************************************)
(* StackedVAE.encode and StackedVAE.decode, one action per iteration of    *)
(* their loops.                                                            *)
(***************************************************************************)
InitStackedVAE ==
  /\ InitModels /\ InitStore /\ InitTrainer /\ InitFrame /\ InitStop
  /\ InitNoLayer /\ InitPrepare /\ InitCheckpoint
  /\ ladder \in LadderArgs
  /\ IdleVAE
  /\ encoded = NoReturn
  /\ decoded = NoReturn

\* encode(inputs, only_encoding): h = self.encoder(inputs); latents = []
EncodeCall ==
  /\ vae_pc = "idle"
  /\ \E only_encoding \in BOOLEAN : vae_only' = only_encoding
  /\ vae_pc' = "encode"
  /\ vae_h' = Tensor("encoder", 0, "inputs")
  /\ latents' = <<>>
  /\ vae_i' = 1
  /\ UNCHANGED <<ladder, outputs, encoded, decoded>>

\* one iteration of  for e, z in zip(self.ladder_encoder, self.ladder_qz)
EncodeLadder ==
  /\ vae_pc = "encode"
  /\ vae_i <= ladder.L
  /\ LET e == ladder_encoder(ladder)[vae_i]
         qz == ladder_qz(ladder)[vae_i]
     IN /\ latents' = Append(latents, qz)
        /\ vae_h' = IF ladder.stochastic_inference
                      THEN Tensor(e.net, e.level, "sample")
                      ELSE IF ladder.only_mean_up
                             THEN Tensor(e.net, e.level, "mean")
                             ELSE Tensor(e.net, e.level, "hidden")
  /\ vae_i' = vae_i + 1
  /\ UNCHANGED <<ladder, vae_pc, vae_only, outputs, encoded, decoded>>

\* after the loop: return h, or append the top latent and return
\* tuple(latents[::-1])
EncodeReturn ==
  /\ vae_pc = "encode"
  /\ vae_i > ladder.L
  /\ encoded' = IF vae_only THEN ReturnTensor(vae_h)
                ELSE ReturnTuple(Reverse(Append(latents, TopLatent)))
  /\ vae_pc' = "idle"
  /\ vae_h' = NoTensor
  /\ vae_i' = 0
  /\ vae_only' = FALSE
  /\ latents' = <<>>
  /\ UNCHANGED <<ladder, outputs, decoded>>

\* decode(latents, only_decoding) on the tuple that encode returned:
\* h = tf.convert_to_tensor(latents[0]); outputs = []
DecodeCall ==
  /\ vae_pc = "idle"
  /\ encoded.kind = "tuple"
  /\ \E only_decoding \in BOOLEAN : vae_only' = only_decoding
  /\ vae_pc' = "decode"
  /\ vae_h' = Tensor(encoded.items[1].layer, 0, "sample")
  /\ outputs' = <<>>
  /\ vae_i' = 1
  /\ UNCHANGED <<ladder, latents, encoded, decoded>>

\* one iteration of  for d, z in zip(self.ladder_decoder, self.ladder_pz[::-1])
DecodeLadder ==
  /\ vae_pc = "decode"
  /\ vae_i <= ladder.L
  /\ LET d == ladder_decoder(ladder)[vae_i]
         pz == DecodePriors(ladder)[vae_i]
     IN /\ vae_h' = Tensor(d.net, d.level, "hidden")
        /\ outputs' = Append(outputs, pz)
  /\ vae_i' = vae_i + 1
  /\ UNCHANGED <<ladder, vae_pc, vae_only, latents, encoded, decoded>>

\* after the loop: h = self.decoder(h); return h, or append the
\* observation and return tuple([outputs[-1]] + outputs[:-1])
DecodeReturn ==
  /\ vae_pc = "decode"
  /\ vae_i > ladder.L
  /\ decoded' = IF vae_only THEN ReturnTensor(Tensor("decoder", 0, "hidden"))
                ELSE LET o == Append(outputs, Observation)
                     IN ReturnTuple(<<o[Len(o)]>> \o SubSeq(o, 1, Len(o) - 1))
  /\ vae_pc' = "idle"
  /\ vae_h' = NoTensor
  /\ vae_i' = 0
  /\ vae_only' = FALSE
  /\ outputs' = <<>>
  /\ UNCHANGED <<ladder, latents, encoded>>

vaeOthers ==
  <<modelVars, storeVars, trainerVars, frameVars, stopVars, layerVars,
    prepVars, ckptVars, fits, h>>

NextStackedVAE ==
  \/ EncodeCall /\ UNCHANGED vaeOthers
  \/ EncodeLadder /\ UNCHANGED vaeOthers
  \/ EncodeReturn /\ UNCHANGED vaeOthers
  \/ DecodeCall /\ UNCHANGED vaeOthers
  \/ DecodeLadder /\ UNCHANGED vaeOthers
  \/ DecodeReturn /\ UNCHANGED vaeOthers

SpecStackedVAE == InitStackedVAE /\ [][NextStackedVAE]_vars

\* the ladder level at position i >= 1 (0-based) of a returned tuple
LevelAt(i) == ladder.L + 1 - i

\* the items at positions 1..L (0-based) of a returned tuple are the layers
\* of the levels L, ..., 1 of the given ladder of layers
HighestFirst(items, layers) ==
  \A i \in 1..ladder.L : items[i + 1] = layers[LevelAt(i)]

\* C11: encode returns (q_z, q_zL, ..., q_z1) and decode returns
\* (X~, p_zL, ..., p_z1), both of length L + 1, so that position i >= 1 of
\* the two tuples is the same ladder level; with only_encoding or
\* only_decoding a single hidden tensor comes back instead.
C11_LadderOrder ==
  [][/\ (EncodeReturn /\ ~vae_only) =>
          /\ encoded'.kind = "tuple"
          /\ Len(encoded'.items) = ladder.L + 1
          /\ encoded'.items[1] = TopLatent
          /\ HighestFirst(encoded'.items, ladder_qz(ladder))
     /\ (DecodeReturn /\ ~vae_only) =>
          /\ decoded'.kind = "tuple"
          /\ Len(decoded'.items) = ladder.L + 1
          /\ decoded'.items[1] = Observation
          /\ HighestFirst(decoded'.items, ladder_pz(ladder))
          /\ \A i \in 1..ladder.L :
               encoded.items[i + 1].level = decoded'.items[i + 1].level
     /\ (EncodeReturn /\ vae_only) =>
          (encoded'.kind = "tensor" /\ encoded'.hidden = vae_h)
     /\ (DecodeReturn /\ vae_only) =>
          (decoded'.kind = "tensor" /\ decoded'.hidden.net = "decoder")]_vars

\* decode returned the tuple of a VAE with two ladder levels or more, and a
\* later encode was asked for the hidden tensor only
C11_Witness ==
  /\ ladder.L >= 2
  /\ decoded.kind = "tuple"
  /\ Len(decoded.items) = ladder.L + 1
  /\ encoded.kind = "tensor"

(***************************************************************************)
(* The operations of a DistributionDense layer.  Its user passes input     *)
(* tensors or the output it holds, and may hold any output it gets back.   *)
(***************************************************************************)
InitDistributionDense ==
  /\ InitModels /\ InitStore /\ InitTrainer /\ InitFrame /\ InitStop
  /\ InitNoVAE /\ InitPrepare /\ InitCheckpoint
  /\ dd_prior \in BOOLEAN
  /\ call_mode \in CallModes
  /\ NewLayer

\* the property posterior
posterior == last_distribution

\* the tensors that the user can pass as x
XArgs == {InputTensor(v) : v \in Inputs} \cup (IF held.has THEN {held} ELSE {})

\* the user keeps the output it holds or takes one of the new ones
Holds(ys) == held' \in {held} \cup {ys[i] : i \in 1..Len(ys)}

\* mean(x), variance(x), stddev(x) or sample(x)
MomentCall(op, x) ==
  LET r == Moment(x, LayerState(last_distribution, built))
  IN /\ Len(r.built) <= MaxDists
     /\ last_distribution' = r.last
     /\ built' = r.built
     /\ Holds(r.ys)
     /\ dd_result' = Outcome(op, x.val, posterior, TRUE, "none", r.last)
     /\ UNCHANGED <<dd_prior, call_mode>>

MeanCall == \E x \in XArgs : MomentCall("mean", x)
VarianceCall == \E x \in XArgs : MomentCall("variance", x)
StddevCall == \E x \in XArgs : MomentCall("stddev", x)
SampleCall == \E x \in XArgs : MomentCall("sample", x)

\* call(x, mode=mode), mode being None when it is the empty set
LayerCall ==
  \E x \in XArgs, mode \in CallModes \cup {{}}, dtype_ok \in BOOLEAN :
    LET m == IF mode = {} THEN call_mode ELSE mode
        r == CallBody(x, m, LayerState(last_distribution, built))
    IN IF ~dtype_ok
         THEN /\ dd_result' =
                   Outcome("call", x.val, posterior, TRUE, "RuntimeError", NoDist)
              /\ UNCHANGED <<dd_prior, call_mode, last_distribution, held, built>>
         ELSE /\ Len(r.built) <= MaxDists
              /\ last_distribution' = r.last
              /\ built' = r.built
              /\ Holds(r.ys)
              /\ dd_result' = Outcome("call", x.val, posterior, TRUE, "none", r.dist)
              /\ UNCHANGED <<dd_prior, call_mode>>

\* kl_divergence(x, prior): the assertion on the prior, then self(x,
\* mode=Statistic.DIST) when x is given, then the test of self.posterior
KlDivergenceCall ==
  \E x \in XArgs \cup {NoX}, prior \in BOOLEAN, dtype_ok \in BOOLEAN :
    LET r == CallBody(x, {"DIST"}, LayerState(last_distribution, built))
        out(asserted, raised, d) ==
          Outcome("kl_divergence", x.val, posterior, asserted, raised, d)
    IN IF ~(prior \/ dd_prior)
         THEN /\ dd_result' = out(FALSE, "AssertionError", NoDist)
              /\ UNCHANGED <<dd_prior, call_mode, last_distribution, held, built>>
         ELSE IF x # NoX /\ ~dtype_ok
           THEN /\ dd_result' = out(TRUE, "RuntimeError", NoDist)
                /\ UNCHANGED <<dd_prior, call_mode, last_distribution, held, built>>
           ELSE IF x # NoX
             THEN /\ Len(r.built) <= MaxDists
                  /\ last_distribution' = r.last
                  /\ built' = r.built
                  /\ dd_result' = out(TRUE, "none", r.last)
                  /\ UNCHANGED <<dd_prior, call_mode, held>>
             ELSE /\ dd_result' =
                       IF posterior = NoDist
                         THEN out(TRUE, "RuntimeError", NoDist)
                         ELSE out(TRUE, "none", posterior)
                  /\ UNCHANGED <<dd_prior, call_mode, last_distribution, held, built>>

\* log_prob(x): the assertion on the shape of x, then the test of
\* self.posterior; x is the value to score, nothing parametrizes
LogProbCall ==
  \E units_match \in BOOLEAN :
    /\ dd_result' =
         IF ~units_match
           THEN Outcome("log_prob", "None", posterior, FALSE, "AssertionError", NoDist)
           ELSE IF posterior = NoDist
             THEN Outcome("log_prob", "None", posterior, TRUE, "RuntimeError", NoDist)
             ELSE Outcome("log_prob", "None", posterior, TRUE, "none", posterior)
    /\ UNCHANGED <<dd_prior, call_mode, last_distribution, held, built>>

layerOthers ==
  <<modelVars, storeVars, trainerVars, frameVars, stopVars, vaeVars,
    prepVars, ckptVars, fits, h>>

NextDistributionDense ==
  \/ MeanCall /\ UNCHANGED layerOthers
  \/ VarianceCall /\ UNCHANGED layerOthers
  \/ StddevCall /\ UNCHANGED layerOthers
  \/ SampleCall /\ UNCHANGED layerOthers
  \/ LayerCall /\ UNCHANGED layerOthers
  \/ KlDivergenceCall /\ UNCHANGED layerOthers
  \/ LogProbCall /\ UNCHANGED layerOthers

SpecDistributionDense ==
  InitDistributionDense /\ [][NextDistributionDense]_vars

\* the distribution built last, None when none was built
LatestBuilt == IF built = <<>> THEN NoDist ELSE built[Len(built)]

\* the last operation parametrized a distribution and returned
Parametrized ==
  /\ dd_result.op \in {"call", "sample", "mean", "variance", "stddev"}
  /\ dd_result.raised = "none"

\* posterior is the last parametrized distribution, None before the first
PosteriorIsLatest ==
  /\ posterior = LatestBuilt
  /\ Parametrized => posterior.id >= dd_result.dist.id
  /\ Parametrized => dd_result.dist.id > 0 /\ posterior.x = dd_result.dist.x
  /\ (Parametrized /\ dd_result.x \in Inputs) => posterior.x = dd_result.x

\* kl_divergence(x=...) re-parametrizes from x, then uses that distribution
KlReparametrizes ==
  (/\ dd_result.op = "kl_divergence"
   /\ dd_result.x # "None"
   /\ dd_result.raised = "none")
  => /\ dd_result.dist = posterior
     /\ dd_result.dist.x = dd_result.x
     /\ dd_result.dist.id > dd_result.before.id

\* kl_divergence or log_prob ran with no distribution and no input x
NothingToUse ==
  /\ dd_result.op \in {"kl_divergence", "log_prob"}
  /\ dd_result.before = NoDist
  /\ dd_result.x = "None"

\* C12 as stated: posterior is the last parametrized distribution (None
\* before the first); kl_divergence and log_prob raise RuntimeError when
\* there is no distribution yet and no input x; kl_divergence(x=...)
\* re-parametrizes from x before it uses the distribution.
C12_PosteriorAndErrors ==
  /\ PosteriorIsLatest
  /\ KlReparametrizes
  /\ NothingToUse => dd_result.raised = "RuntimeError"

\* C12, amended: the RuntimeError comes only when the assertion of the
\* operation holds (a prior is known to kl_divergence, the input of
\* log_prob has units features); otherwise an AssertionError comes first.
C12_ErrorsAfterAssertions ==
  /\ PosteriorIsLatest
  /\ KlReparametrizes
  /\ (NothingToUse /\ dd_result.asserted) => dd_result.raised = "RuntimeError"
  /\ (NothingToUse /\ ~dd_result.asserted) => dd_result.raised = "AssertionError"

\* kl_divergence() on a layer with a prior and no distribution: RuntimeError
C12_Witness ==
  /\ dd_result.op = "kl_divergence"
  /\ NothingToUse
  /\ dd_result.asserted
  /\ dd_result.raised = "RuntimeError"
  /\ posterior = NoDist

(***************************************************************************)
(* Trainer.prepare, one action per statement.                              *)
(***************************************************************************)
\* the arguments that prepare is going to be called with
InitPrepareCall ==
  /\ InitModels /\ InitStore /\ InitTrainer /\ InitFrame /\ InitStop
  /\ InitNoVAE /\ InitNoLayer /\ InitCheckpoint
  /\ prep_args \in PrepareArgs
  /\ prep_pc = "idle"
  /\ pipeline = <<>>

\* prepare(ds, ...): the arguments are bound
PrepareCall ==
  /\ prep_pc = "idle"
  /\ pipeline' = <<>>
  /\ prep_pc' = "source"
  /\ UNCHANGED prep_args

\* if not isinstance(ds, tf.data.Dataset): from_tensor_slices(ds)
FromTensorSlices ==
  /\ prep_pc = "source"
  /\ pipeline' = IF prep_args.is_dataset THEN <<Stage("dataset", "none", Sequential, 0)>>
                 ELSE <<Stage("from_tensor_slices", "none", Sequential, 0)>>
  /\ prep_pc' = "shuffle"
  /\ UNCHANGED prep_args

\* if shuffle: ds.shuffle(int(shuffle)) or ds.shuffle(10000)
Shuffle ==
  /\ prep_pc = "shuffle"
  /\ pipeline' =
       IF prep_args.shuffle = "None" THEN pipeline
       ELSE IF prep_args.shuffle = "Number"
         THEN Append(pipeline, Stage("shuffle", "none", Sequential, 1))
         ELSE Append(pipeline, Stage("shuffle", "none", Sequential, DefaultShuffleBuffer))
  /\ prep_pc' = "preprocess"
  /\ UNCHANGED prep_args

\* if preprocess is not None: ds.map(preprocess, ...), then ds.cache(cache)
\* if cache is not None
MapPreprocess ==
  /\ prep_pc = "preprocess"
  /\ pipeline' =
       IF ~prep_args.preprocess THEN pipeline
       ELSE LET m == Append(pipeline, Stage("map", "preprocess",
                              ParallelCalls(prep_args.parallel_preprocess), 0))
            IN IF prep_args.cache
                 THEN Append(m, Stage("cache", "none", Sequential, 0))
                 ELSE m
  /\ prep_pc' = "batch"
  /\ UNCHANGED prep_args

\* ds.repeat(epochs).batch(batch_size, drop_remainder=drop_remainder)
RepeatBatch ==
  /\ prep_pc = "batch"
  /\ pipeline' = pipeline \o
       <<Stage("repeat", "none", Sequential, prep_args.epochs),
         Stage("batch", "none", Sequential, prep_args.batch_size)>>
  /\ prep_pc' = "postprocess"
  /\ UNCHANGED prep_args

\* if postprocess is not None: ds.map(postprocess, ...)
MapPostprocess ==
  /\ prep_pc = "postprocess"
  /\ pipeline' =
       IF ~prep_args.postprocess THEN pipeline
       ELSE Append(pipeline, Stage("map", "postprocess",
                     ParallelCalls(prep_args.parallel_postprocess), 0))
  /\ prep_pc' = "prefetch"
  /\ UNCHANGED prep_args

\* ds.prefetch(AUTOTUNE); return ds
Prefetch ==
  /\ prep_pc = "prefetch"
  /\ pipeline' = Append(pipeline, Stage("prefetch", "none", AUTOTUNE, 0))
  /\ prep_pc' = "done"
  /\ UNCHANGED prep_args

prepOthers ==
  <<modelVars, storeVars, trainerVars, frameVars, stopVars, vaeVars,
    layerVars, ckptVars, fits, h>>

NextPrepare ==
  \/ PrepareCall /\ UNCHANGED prepOthers
  \/ FromTensorSlices /\ UNCHANGED prepOthers
  \/ Shuffle /\ UNCHANGED prepOthers
  \/ MapPreprocess /\ UNCHANGED prepOthers
  \/ RepeatBatch /\ UNCHANGED prepOthers
  \/ MapPostprocess /\ UNCHANGED prepOthers
  \/ Prefetch /\ UNCHANGED prepOthers

SpecPrepare == InitPrepareCall /\ [][NextPrepare]_vars

\* the positions of the stages of the dataset that apply op (and fn)
StagesOf(op, fn) ==
  {i \in 1..Len(pipeline) : pipeline[i].op = op /\ pipeline[i].fn = fn}

\* every stage of A comes before every stage of B
Before(A, B) == \A i \in A, j \in B : i < j

\* what the docstring says of a parallel_* argument
DocParallel(x) ==
  CASE x = 0 -> Sequential
    [] x = -1 -> AUTOTUNE
    [] x > 0 -> [kind |-> "int", n |-> x]

\* C13: in the dataset that prepare returns, preprocess maps single
\* examples before repeat and batch, postprocess maps after batch, and
\* prefetch is the last stage; a parallel_* argument of 0 maps
\* sequentially, -1 gives AUTOTUNE, n > 0 gives n parallel calls.
C13_PipelineOrder ==
  prep_pc = "done" =>
    LET pre == StagesOf("map", "preprocess")
        post == StagesOf("map", "postprocess")
        repeat == StagesOf("repeat", "none")
        batch == StagesOf("batch", "none")
    IN /\ Cardinality(pre) = (IF prep_args.preprocess THEN 1 ELSE 0)
       /\ Cardinality(post) = (IF prep_args.postprocess THEN 1 ELSE 0)
       /\ Cardinality(repeat) = 1 /\ Cardinality(batch) = 1
       /\ Before(pre, repeat) /\ Before(repeat, batch) /\ Before(batch, post)
       /\ StagesOf("prefetch", "none") = {Len(pipeline)}
       /\ \A i \in pre :
            pipeline[i].parallel = DocParallel(prep_args.parallel_preprocess)
       /\ \A i \in post :
            pipeline[i].parallel = DocParallel(prep_args.parallel_postprocess)

\* a returned dataset with both maps, one sequential and one with two calls
C13_Witness ==
  /\ prep_pc = "done"
  /\ prep_args.preprocess /\ prep_args.postprocess
  /\ prep_args.parallel_preprocess = 0
  /\ prep_args.parallel_postprocess = 2
  /\ Len(pipeline) >= 6

(***************************************************************************)
(* Checkpoints of one directory, with the same models and optimizers in    *)
(* every call, and training between the calls.                             *)
(***************************************************************************)
ckptOthers ==
  <<storeVars, frameVars, stopVars, vaeVars, layerVars, prepVars, fits, h>>

\* training between the calls: a step of the trainer on all the models
TrainBetween ==
  /\ n_iter < MaxOptSteps
  /\ LET g == Step(1, TRUE, weights, opt_iterations)
     IN /\ weights' = g.weights
        /\ opt_iterations' = g.opt_iterations
        /\ train_loss' = Append(train_loss, g.loss)
  /\ n_iter' = n_iter + 1
  /\ UNCHANGED <<valid_loss, valid_loss_epoch, ckptVars, ckptOthers>>

\* save_checkpoint(dir_path, models, optimizers, trainer, max_to_keep)
SaveCheckpointCall ==
  \E trainer_given \in BOOLEAN, max_to_keep \in KeepValues :
    LET k == Len(hsaves) + 1 IN
    /\ k <= MaxSaves
    /\ manager' =
         IF manager.made
           THEN [manager EXCEPT !.checkpoints =
                   Kept(Append(@, Checkpoint(k)), manager.max_to_keep)]
           ELSE [made |-> TRUE, max_to_keep |-> max_to_keep,
                 checkpoints |-> <<Checkpoint(k)>>]
    /\ files' = [optimizers_pkl |-> TRUE, max_to_keep |-> max_to_keep,
                 trainer_pkl |-> IF trainer_given THEN TrainerPkl(k)
                                 ELSE files.trainer_pkl]
    /\ hsaves' = Append(hsaves, [checkpoint |-> Checkpoint(k),
                                 trainer |-> IF trainer_given THEN TrainerPkl(k)
                                             ELSE NoTrainerPkl])
    /\ UNCHANGED <<modelVars, trainerVars, restored, ckptOthers>>

\* restore_checkpoint(dir_path, models, optimizers, index) for an index
\* that manager.checkpoints has
RestoreCheckpointCall ==
  /\ manager.made
  /\ \E index \in (0 - Len(manager.checkpoints))..(Len(manager.checkpoints) - 1) :
       LET c == PyIndex(manager.checkpoints, index) IN
       /\ weights' = c.weights
       /\ opt_iterations' = c.optimizer
       /\ restored' = [done |-> TRUE, index |-> index, number |-> c.number,
                       models |-> c.weights, optimizer |-> c.optimizer,
                       trainer |-> files.trainer_pkl]
  /\ UNCHANGED <<trainerVars, manager, files, hsaves, ckptOthers>>

NextCheckpoint ==
  \/ TrainBetween
  \/ SaveCheckpointCall
  \/ RestoreCheckpointCall

SpecCheckpoint == Init /\ [][NextCheckpoint]_vars

\* C14: what restore_checkpoint returns for a valid index was all written
\* by one call of save_checkpoint: the values of the models and of the
\* optimizer and the state of the trainer, which is None when that call
\* was given no trainer.
C14_RestoreOneCall ==
  restored.done =>
    /\ restored.number \in 1..Len(hsaves)
    /\ restored.models = hsaves[restored.number].checkpoint.weights
    /\ restored.optimizer = hsaves[restored.number].checkpoint.optimizer
    /\ restored.trainer = hsaves[restored.number].trainer

=============================================================================
